---- MODULE Spec2Model ----
(***************************************************************************)
(* Multi-agent consensus pipeline of Greenwash_Checker.                    *)
(*                                                                         *)
(* Two classifier agents (Scientist, Critic) judge the same item set in    *)
(* parallel threads; merge_and_judge compares their verdicts per item and  *)
(* calls the Judge (call_tiebreaker) on disagreement.  The pipeline exists *)
(* twice: audit_logic.run_greenwash_audit and                              *)
(* services.analyze_ingredients_parallel (which also runs the logistics    *)
(* call and the summary).  The variable `variant` selects the entry point. *)
(*                                                                         *)
(* Text is modelled as a sequence of one-character strings so that         *)
(* str.lower() and the substring test `x in y` are computed, not assumed.  *)
(***************************************************************************)
EXTENDS Integers, Sequences, FiniteSets, TLC

\* ---------------------------------------------------------------- bounds
MaxItems == 2
MaxKeys == 2

\* ------------------------------------------------------------------ text
PalmOilText == <<"P", "a", "l", "m", " ", "O", "i", "l">>
NaturalText == <<"N", "a", "t", "u", "r", "a", "l">>
OilKey == <<"o", "i", "l">>
NaturalKey == <<"A", "L", "L", " ", "N", "A", "T", "U", "R", "A", "L">>
SaltKey == <<"S", "a", "l", "t">>

\* Ingredient and claim texts the extractor can hand over, and key texts an
\* agent can invent: a part of an item, an item inside a longer text in
\* another case, and a text that is neither.
IngredientPool == {PalmOilText}
ClaimPool == {NaturalText}
ItemPool == IngredientPool \cup ClaimPool
KeyPool == {OilKey, NaturalKey, SaltKey}

\* str.lower() on one character (the letters that occur in the pools).
LowerChar(c) ==
    CASE c = "P" -> "p"
      [] c = "O" -> "o"
      [] c = "S" -> "s"
      [] c = "N" -> "n"
      [] c = "A" -> "a"
      [] c = "L" -> "l"
      [] c = "T" -> "t"
      [] c = "U" -> "u"
      [] c = "R" -> "r"
      [] OTHER -> c

Lower(s) == [i \in 1..Len(s) |-> LowerChar(s[i])]

\* Python `needle in hay` on strings.
Contains(hay, needle) ==
    \E i \in 0..(Len(hay) - Len(needle)) :
        SubSeq(hay, i + 1, i + Len(needle)) = needle

\* The test of the inner loop: item.lower() in key.lower() or key.lower() in item.lower()
KeyMatches(item, key) ==
    \/ Contains(Lower(key), Lower(item))
    \/ Contains(Lower(item), Lower(key))

\* ------------------------------------------------------------------ JSON
Absent == "<absent>"
Null == "<null>"
Status == {"RED", "YELLOW", "GREEN"}

\* Values an agent can put under "status": the three enumerated ones, a
\* differently-cased one and JSON null.
AgentStatusValues == Status \cup {"red", Null}

\* One value of the agent's mapping: JSON null, a JSON string, or an object
\* whose "status"/"explanation" members are present or absent.
JNull == [kind |-> "null", status |-> Absent, explanation |-> Absent]
JText == [kind |-> "string", status |-> Absent, explanation |-> Absent]
JObject(st, ex) == [kind |-> "object", status |-> st, explanation |-> ex]

\* Python truthiness of such a value (None and {} are falsy).
Truthy(v) ==
    \/ v.kind = "string"
    \/ v.kind = "object" /\ (v.status # Absent \/ v.explanation # Absent)

\* dict.get(member, default) on an object value.
GetOr(v, member, default) ==
    IF v[member] = Absent THEN default ELSE v[member]

\* --------------------------------------------------- classifier adapter
Tasks == {"task1", "task2"}

\* Model handed to each thread.
ModelOf(t) == IF t = "task1" THEN "llama-3.3-70b-versatile" ELSE "llama-3.1-8b-instant"

\* Explanation text an agent writes (each agent words its own).
ExplanationOf(t) == IF t = "task1" THEN "Scientist reason" ELSE "Critic reason"

\* All sequences over S of length at most n.
BoundedSeq(S, n) == UNION {[1..k -> S] : k \in 0..n}

Range(s) == {s[i] : i \in DOMAIN s}

\* A parsed JSON object with distinct keys, in the order the model wrote them.
DictsOver(keys, vals, n) ==
    {d \in BoundedSeq([key : keys, val : vals], n) :
        \A i, j \in DOMAIN d : i # j => d[i].key # d[j].key}

\* Outcome of chat.completions.create + json.loads:
\*   exception  the API call raised (network error, timeout, rate limit)
\*   badjson    the content is not JSON, json.loads raised
\*   nondict    the content is JSON but not an object (a list)
\*   dict       the content is a JSON object, `entries` in written order
FailedReply(k) == [kind |-> k, entries |-> <<>>]
DictReply(d) == [kind |-> "dict", entries |-> d]
RepliesOver(vals, n) ==
    {FailedReply(k) : k \in {"exception", "badjson", "nondict"}}
        \cup {DictReply(d) : d \in DictsOver(KeyPool, vals, n)}

NoVerdict == [status |-> Absent, explanation |-> Absent]
EmptyReport == [it \in {} |-> NoVerdict]

\* The (item, key) pairs of the pools that pass the test.
Matches == {p \in ItemPool \X KeyPool : KeyMatches(p[1], p[2])}

\* Index of the first entry whose key matches the item, 0 when none does
\* (inner for-loop with break).
FirstMatch(item, entries) ==
    LET hits == {i \in DOMAIN entries : <<item, entries[i].key>> \in Matches}
    IN  IF hits = {} THEN 0
        ELSE CHOOSE i \in hits : \A j \in hits : i <= j

\* found_data after the inner loop (None when no key matched).
FoundData(item, entries) ==
    LET first == FirstMatch(item, entries)
    IN  IF first = 0 THEN JNull ELSE entries[first].val

\* The status stored for a matched entry: found_data.get("status", "YELLOW").
StoredStatus(found) == GetOr(found, "status", "YELLOW")

StoredExplanation(found) == GetOr(found, "explanation", "Analyzed")

\* call_ai_sync / call_ai_model: the report keyed by the original items.
\* Any exception inside the try block (the call, json.loads, .items() on a
\* non-object, .get on a truthy non-object value) yields {}.
call_ai_sync(reply, items) ==
    LET found == [it \in Range(items) |-> FoundData(it, reply.entries)]
        raisesInside ==
            \/ reply.kind # "dict"
            \/ \E it \in Range(items) : found[it].kind = "string"
        judged == {it \in Range(items) : Truthy(found[it])}
    IN  IF raisesInside
        THEN EmptyReport
        ELSE [it \in judged |->
                [status |-> StoredStatus(found[it]),
                 explanation |-> StoredExplanation(found[it])]]

\* dict.get(item) on a report (None when the item is not a key).
Lookup(report, item) ==
    IF item \in DOMAIN report THEN report[item] ELSE NoVerdict

\* ----------------------------------------------------------------- Judge
JudgeExplanation == "Ruling"

\* Outcome of the Judge's chat.completions.create + json.loads.
JudgeReply(k, st, ex) == [kind |-> k, final_status |-> st, final_explanation |-> ex]
JudgeReplies ==
    {JudgeReply(k, Absent, Absent) : k \in {"exception", "badjson", "nondict"}}
        \cup {JudgeReply("dict", st, JudgeExplanation) : st \in {"RED", "Maybe"}}
        \cup {JudgeReply("dict", Absent, Absent), JudgeReply("dict", "RED", Absent)}

JudgeFallback == JudgeReply("dict", "YELLOW", "Judge unavailable.")

\* Variant of call_tiebreaker without the except branch.
CallTiebreakerNoFallback(reply) == reply

\* call_tiebreaker: the parsed reply, or the fallback when the call or
\* json.loads raised.
call_tiebreaker(reply) ==
    IF reply.kind \in {"exception", "badjson"} THEN JudgeFallback ELSE reply

\* ruling['final_status'] and ruling['final_explanation'] both evaluate
\* (no TypeError on a non-object, no KeyError on a missing member).
RulingSubscriptable(ruling) ==
    /\ ruling.kind = "dict"
    /\ ruling.final_status # Absent
    /\ ruling.final_explanation # Absent

NoRuling == JudgeReply("none", Absent, Absent)

\* ------------------------------------------------------------- logistics
OriginPool == {"Unknown", "Made in Brazil"}

LogisticsData(k, roast) == [kind |-> k, roast |-> roast]
NoLogistics == LogisticsData("none", Absent)
LogisticsHidden == LogisticsData("dict", "Origin hidden, suspicious.")
LogisticsUnavailable == LogisticsData("dict", "Logistics AI unavailable.")
LogisticsEmptyDict == LogisticsData("dict", Absent)

\* What services.analyze_logistics can return once it does call the model.
LogisticsReplies ==
    {LogisticsUnavailable, LogisticsData("dict", "Long way from Brazil."),
     LogisticsData("nondict", Absent)}

\* Variant of the test that only knows the word "Unknown".
OriginUnknownWordOnly(origin) == origin = "Unknown"

\* `not origin_text or origin_text == "Unknown"`
OriginUnknown(origin) == origin = "" \/ origin = "Unknown"

\* ------------------------------------------------------------- the state
VARIABLES
    variant,        \* "audit_logic" (run_greenwash_audit) or "services"
    ingredients,    \* input: ingredient texts
    claims,         \* input: claim texts
    origin_text,    \* input: origin text (services only)
    pc,             \* position of the coordinating coroutine
    all_items,      \* ingredients + claims
    taskState,      \* per thread: "idle", "running", or the reply kind once done
    taskResult,     \* per thread: the report call_ai_sync returned
    logisticsState, \* task3 of services: "idle", "running", "done"
    logistics_data, \* what analyze_logistics returned
    result_a,       \* first result of gather
    result_b,       \* second result of gather
    idx,            \* position of merge_and_judge's loop in all_items (1-based)
    final_report,   \* the list merge_and_judge is building
    judgeCalls,     \* per position: how often call_tiebreaker was invoked
    judgeReplies,   \* per position: what the Judge model answered
    rulings,        \* per position: what call_tiebreaker returned
    summary,        \* narrative text
    summaryReply,   \* what the summarizer model answered ("none": not called)
    calls,          \* number of external model calls made, by collaborator
    returned,       \* value handed to the caller
    adItems,        \* adapter study: items
    adReply,        \* adapter study: model reply
    adReport,       \* adapter study: report returned
    run,            \* repeated request: 1 for the first run, 2 for the re-run
    firstRun,       \* repeated request: what the first run got and produced
    arrival,        \* completion order: the threads in the order they finished
    resolverRun,    \* the two merge_and_judge implementations on one input
    appPc,          \* app.py: position of the script
    extraction,     \* app.py: what the vision call did
    data,           \* app.py: what extract_data_from_image returned
    app_ingredients,\* app.py: ingredients = data.get("ingredients", [])
    app_claims,     \* app.py: claims = data.get("claims", [])
    app_origin,     \* app.py: origin = data.get("origin_info", "Unknown")
    scores,         \* app.py: what calculate_scores returned
    app_logistics,  \* app.py: what analyze_logistics returned
    appCalls,       \* app.py: calls made after the extraction, by collaborator
    shown,          \* app.py: what the page shows
    apiPc,          \* main.py: position in analyze_product
    barcode,        \* main.py: request.barcode
    req_front_text, \* main.py: request.front_text
    req_back_text,  \* main.py: request.back_text
    groq_client,    \* main.py: whether the Groq client is configured
    gemini_model,   \* main.py: whether the Gemini model is configured
    off_name,       \* main.py: name fetch_product_from_off returned
    off_ingredients,\* main.py: ingredients fetch_product_from_off returned
    front_text,     \* main.py: front text after step 1
    back_text,      \* main.py: back text after step 1
    groq_outcome,   \* main.py: how the Groq call ended ("uncalled" before)
    gemini_outcome, \* main.py: how the Gemini call ended ("uncalled" before)
    llm_calls,      \* main.py: providers called by call_llm_analysis, in order
    llm_source,     \* main.py: which return statement produced llm_result
    origin_country, \* main.py: request.origin_country
    origin_location,\* main.py: outcome of geolocator.geocode(origin_country)
    user_location,  \* main.py: outcome of geolocator.geocode(user_country)
    distance_hkm,   \* main.py: geodesic distance, in hundreds of km
    banned_count,   \* main.py: matches of check_banned_additives
    llm_result,     \* main.py: what call_llm_analysis returned
    base_health_score, \* main.py: llm_result.get("base_health_score", 50)
    food_miles_penalty, \* main.py: result of calculate_food_miles_penalty
    final_score,    \* main.py: final_score of step 8
    response        \* main.py: what the endpoint answers

pipelineVars ==
    <<variant, ingredients, claims, origin_text, pc, all_items, taskState,
      taskResult, logisticsState, logistics_data, result_a, result_b, idx,
      final_report, judgeCalls, judgeReplies, rulings, summary, summaryReply,
      calls, returned>>

adapterVars == <<adItems, adReply, adReport>>

rerunVars == <<run, firstRun>>

raceVars == <<arrival>>

resolverVars == <<resolverRun>>

\* Locals of the script that phase 1 assigns.
appLocals == <<app_ingredients, app_claims, app_origin>>

appVars ==
    <<appPc, extraction, data, appLocals, scores, app_logistics, appCalls, shown>>

\* The request and the configuration of the service.
apiRequest ==
    <<barcode, req_front_text, req_back_text, origin_country, groq_client,
      gemini_model>>

\* Step 1.
apiFetched == <<off_name, off_ingredients, front_text, back_text>>

\* Step 4.
apiMiles == <<origin_location, user_location, distance_hkm, food_miles_penalty>>

\* Step 6.
apiLlm == <<groq_outcome, gemini_outcome, llm_calls, llm_source, llm_result>>

\* Step 8.
apiScore == <<base_health_score, final_score>>

apiVars ==
    <<apiPc, apiRequest, apiFetched, banned_count, apiMiles, apiLlm, apiScore,
      response>>

\* Everything outside one request of the pipeline.
studyVars ==
    <<adapterVars, rerunVars, raceVars, resolverVars, appVars, apiVars>>

vars == <<pipelineVars, studyVars>>

NotReturned == [shape |-> "none", results |-> <<>>, logistics |-> NoLogistics,
                narrative |-> Absent]
NoCalls == [classifier |-> 0, judge |-> 0, logistics |-> 0, summarizer |-> 0]

\* Record of a finished run: how it ended, the list it built and returned,
\* what each thread returned and what the Judge answered at each position.
RunRecord(p, results, report, states, reports, replies, asked) ==
    [pc |-> p, results |-> results, final_report |-> report,
     taskState |-> states, taskResult |-> reports, judgeReplies |-> replies,
     judgeCalls |-> asked]

NoRunRecord ==
    RunRecord("none", <<>>, <<>>, [t \in Tasks |-> "idle"],
             [t \in Tasks |-> EmptyReport], <<>>, <<>>)

\* A request that is not a re-run.
RerunIdle ==
    /\ run = 1
    /\ firstRun = NoRunRecord

\* The completion order is not observed.
RaceIdle == arrival = <<>>

\* What one merge_and_judge run ends with: whether it returned or raised,
\* the list it returned, and the prompts it sent to the Judge, in order.
Resolved(outcome, report, asked) ==
    [outcome |-> outcome, report |-> report, asked |-> asked]

NotResolved == Resolved("pending", <<>>, <<>>)

ResolverRun(items, a, b, replies, byAuditLogic, byServices) ==
    [items |-> items, analysis_a |-> a, analysis_b |-> b, replies |-> replies,
     audit_logic |-> byAuditLogic, services |-> byServices]

\* The two implementations are not compared.
ResolverIdle ==
    resolverRun = ResolverRun(<<>>, EmptyReport, EmptyReport, <<>>,
                              NotResolved, NotResolved)

\* ---- app.py values
\* One element of a JSON list: a string (its text) or a number.
TextElem(t) == [kind |-> "str", text |-> t]
NumberElem == [kind |-> "int", text |-> <<>>]

\* The dict the extractor hands over; a member the JSON object lacks has
\* its has_ flag FALSE (origin_info is then Absent).
ExtractedData(k, hasClaims, claimList, hasIngredients, ingredientList, origin) ==
    [kind |-> k, has_claims |-> hasClaims, claims |-> claimList,
     has_ingredients |-> hasIngredients, ingredients |-> ingredientList,
     origin_info |-> origin]
NoData == ExtractedData("none", FALSE, <<>>, FALSE, <<>>, Absent)

\* What calculate_scores hands over.
ScoresData(k, hasTotal, total) ==
    [kind |-> k, has_total |-> hasTotal, final_total_score |-> total]
NoScores == ScoresData("none", FALSE, 0)

\* What backend.analyze_logistics hands over.
LogisticsIntel(k, hasAdj, adj) ==
    [kind |-> k, has_adj |-> hasAdj, distance_score_adj |-> adj]
NoLogisticsIntel == LogisticsIntel("none", FALSE, 0)

NoAppCalls == [scoring |-> 0, logistics |-> 0, verdict |-> 0]

\* The page: the st.error text, and the two metrics of the dashboard.
Page(err, hasScore, score, hasPenalty, penalty) ==
    [error |-> err, has_score |-> hasScore, score |-> score,
     has_penalty |-> hasPenalty, penalty |-> penalty]
BlankPage == Page(<<>>, FALSE, 0, FALSE, 0)

\* app.py is not running.
AppIdle ==
    /\ appPc = "idle"
    /\ extraction = "none"
    /\ data = NoData
    /\ app_ingredients = <<>>
    /\ app_claims = <<>>
    /\ app_origin = "Unknown"
    /\ scores = NoScores
    /\ app_logistics = NoLogisticsIntel
    /\ appCalls = NoAppCalls
    /\ shown = BlankPage

\* What call_llm_analysis hands over, as far as the score goes: parsed JSON
\* that is an object (with or without base_health_score) or is none.
LlmResult(k, hasBase, base) ==
    [kind |-> k, has_base |-> hasBase, base_health_score |-> base]
NoLlmResult == LlmResult("none", FALSE, 0)

\* None where a text is expected (texts are sequences of characters).
NoneText == <<Absent>>

\* main.py is not running.
ApiIdle ==
    /\ apiPc = "idle"
    /\ barcode = Absent
    /\ req_front_text = NoneText
    /\ req_back_text = NoneText
    /\ groq_client = FALSE
    /\ gemini_model = FALSE
    /\ off_name = NoneText
    /\ off_ingredients = NoneText
    /\ front_text = <<>>
    /\ back_text = <<>>
    /\ groq_outcome = "uncalled"
    /\ gemini_outcome = "uncalled"
    /\ llm_calls = <<>>
    /\ llm_source = "none"
    /\ origin_country = Absent
    /\ origin_location = "uncalled"
    /\ user_location = "uncalled"
    /\ distance_hkm = 0
    /\ banned_count = 0
    /\ llm_result = NoLlmResult
    /\ base_health_score = 0
    /\ food_miles_penalty = 0
    /\ final_score = 0
    /\ response = "none"

\* The adapter study is idle while the pipeline runs.
AdapterIdle ==
    /\ adItems = <<>>
    /\ adReply = FailedReply("exception")
    /\ adReport = EmptyReport

\* Values an agent thread can write under a key in the pipeline: a bare string,
\* an empty object, or an object with its explanation and a status that is
\* enumerated, differently cased, or left out.
PipelineValues(t) ==
    {JText, JObject(Absent, Absent)}
        \cup {JObject(st, ExplanationOf(t)) : st \in {"RED", "GREEN", "red", Absent}}

\* Replies an agent thread can get in the pipeline.
PipelineReplies == [t \in Tasks |-> RepliesOver(PipelineValues(t), MaxKeys)]

\* Item sets the Item Set Builder can produce within the bounds.
ItemSets ==
    {items \in {i \o c : i \in BoundedSeq(IngredientPool, MaxItems),
                          c \in BoundedSeq(ClaimPool, MaxItems)} :
        Len(items) <= MaxItems}

\* What a classifier thread can end with on a given item set: the kind of
\* reply it got and the report call_ai_sync made of it.
ThreadOutcomes ==
    UNION {{[task |-> t, items |-> items, kind |-> reply.kind,
             report |-> call_ai_sync(reply, items)] :
                items \in ItemSets, reply \in PipelineReplies[t]} :
           t \in Tasks}

Init ==
    /\ variant \in {"audit_logic", "services"}
    /\ ingredients \in BoundedSeq(IngredientPool, MaxItems)
    /\ claims \in BoundedSeq(ClaimPool, MaxItems - Len(ingredients))
    /\ origin_text \in (IF variant = "services" THEN OriginPool ELSE {"Unknown"})
    /\ pc = "start"
    /\ all_items = <<>>
    /\ taskState = [t \in Tasks |-> "idle"]
    /\ taskResult = [t \in Tasks |-> EmptyReport]
    /\ logisticsState = "idle"
    /\ logistics_data = NoLogistics
    /\ result_a = EmptyReport
    /\ result_b = EmptyReport
    /\ idx = 0
    /\ final_report = <<>>
    /\ judgeCalls = <<>>
    /\ judgeReplies = <<>>
    /\ rulings = <<>>
    /\ summary = Absent
    /\ summaryReply = "none"
    /\ calls = NoCalls
    /\ returned = NotReturned
    /\ AdapterIdle
    /\ RerunIdle
    /\ RaceIdle
    /\ ResolverIdle
    /\ AppIdle
    /\ ApiIdle

\* ------------------------------------------------------------- pipeline
Returned(shape, results, logistics, narrative) ==
    [shape |-> shape, results |-> results, logistics |-> logistics,
     narrative |-> narrative]

\* What the entry point returns for an empty item set.
EmptyReturn(v) ==
    IF v = "audit_logic"
    THEN Returned("pair", <<>>, NoLogistics, "No items to analyze.")
    ELSE Returned("triple", <<>>, LogisticsEmptyDict, "No ingredients found.")

\* Variant of the emptiness test that never takes the early return.
ItemSetEmptyNever(items) == FALSE

\* `if not all_items`
ItemSetEmpty(items) == items = <<>>

\* Variant of the item set builder that puts the claims first.
BuildItemSetClaimsFirst(ings, cls) == cls \o ings

\* `all_items = ingredients + claims`
BuildItemSet(ings, cls) == ings \o cls

\* run_greenwash_audit / analyze_ingredients_parallel up to the gather: build
\* the item set, return at once when it is empty, otherwise hand the two
\* classifier calls to threads (and, in services, start the logistics call).
Start ==
    /\ pc = "start"
    /\ all_items' = BuildItemSet(ingredients, claims)
    /\ IF ItemSetEmpty(all_items')
       THEN /\ returned' = EmptyReturn(variant)
            /\ pc' = "done"
            /\ UNCHANGED <<taskState, logisticsState, judgeCalls, judgeReplies,
                           rulings>>
       ELSE /\ taskState' = [t \in Tasks |-> "running"]
            /\ logisticsState' = IF variant = "services" THEN "running" ELSE "idle"
            /\ judgeCalls' = [i \in 1..Len(all_items') |-> 0]
            /\ judgeReplies' = [i \in 1..Len(all_items') |-> NoRuling]
            /\ rulings' = [i \in 1..Len(all_items') |-> NoRuling]
            /\ pc' = "gather"
            /\ UNCHANGED returned
    /\ UNCHANGED <<variant, ingredients, claims, origin_text, taskResult,
                   logistics_data, result_a, result_b, idx, final_report,
                   summary, summaryReply, calls, studyVars>>

\* One classifier thread finishes: call_ai_sync ran to its return.
AgentFinishes(t) ==
    /\ pc = "gather"
    /\ taskState[t] = "running"
    /\ \E outcome \in ThreadOutcomes :
          /\ outcome.task = t
          /\ outcome.items = all_items
          /\ taskState' = [taskState EXCEPT ![t] = outcome.kind]
          /\ taskResult' = [taskResult EXCEPT ![t] = outcome.report]
    /\ calls' = [calls EXCEPT !.classifier = @ + 1]
    /\ UNCHANGED <<variant, ingredients, claims, origin_text, pc, all_items,
                   logisticsState, logistics_data, result_a, result_b, idx,
                   final_report, judgeCalls, judgeReplies, rulings, summary, summaryReply, returned,
                   adapterVars, rerunVars, resolverVars, appVars, apiVars>>

\* The same step with the completion order not observed.
AgentReturns(t) ==
    /\ AgentFinishes(t)
    /\ UNCHANGED raceVars

\* services.analyze_logistics finishes.
LogisticsReturns ==
    /\ pc = "gather"
    /\ logisticsState = "running"
    /\ IF OriginUnknown(origin_text)
       THEN /\ logistics_data' = LogisticsHidden
            /\ UNCHANGED calls
       ELSE /\ logistics_data' \in LogisticsReplies
            /\ calls' = [calls EXCEPT !.logistics = @ + 1]
    /\ logisticsState' = "done"
    /\ UNCHANGED <<variant, ingredients, claims, origin_text, pc, all_items,
                   taskState, taskResult, result_a, result_b, idx,
                   final_report, judgeCalls, judgeReplies, rulings, summary, summaryReply, returned,
                   studyVars>>

\* Variant of the join that resumes as soon as one classifier thread is done.
AnyAwaitedDone == \E t \in Tasks : taskState[t] # "running"

\* `await asyncio.gather(...)`: every awaited task is done.
AllAwaitedDone ==
    /\ \A t \in Tasks : taskState[t] # "running"
    /\ logisticsState # "running"

\* Variant of the list merge_and_judge starts from: a list kept across calls.
KeptReport == final_report

\* `final_report = []` at the head of merge_and_judge.
NewReport == <<>>

\* Variant of the join that hands the results over in completion order.
GatheredInArrivalOrder(k) == taskResult[arrival[k]]

\* The k-th result of asyncio.gather(task1, task2, ...): the result of the
\* k-th argument.
Gathered(k) == taskResult[IF k = 1 THEN "task1" ELSE "task2"]

\* asyncio.gather resumes the coroutine once every awaited task is done and
\* merge_and_judge is entered; results come back in argument order.
Gather ==
    /\ pc = "gather"
    /\ AllAwaitedDone
    /\ result_a' = Gathered(1)
    /\ result_b' = Gathered(2)
    /\ idx' = 1
    /\ final_report' = NewReport
    /\ pc' = "merge"
    /\ UNCHANGED <<variant, ingredients, claims, origin_text, all_items,
                   taskState, taskResult, logisticsState, logistics_data,
                   judgeCalls, judgeReplies, rulings, summary, summaryReply, calls,
                   returned, studyVars>>

\* Variant of slot a without the backfill from agent B.
SlotANoBackfill(item) == Lookup(result_a, item)

\* Variant of slot a that defaults an item nobody judged instead of leaving
\* it empty.
SlotADefaultsUnjudged(item) ==
    IF Lookup(result_a, item) # NoVerdict THEN Lookup(result_a, item)
    ELSE IF Lookup(result_b, item) # NoVerdict THEN Lookup(result_b, item)
    ELSE [status |-> "YELLOW", explanation |-> "Unknown"]

\* merge_and_judge, slot a after `if not a: a = b`.
SlotA(item) ==
    IF Lookup(result_a, item) = NoVerdict
    THEN Lookup(result_b, item)
    ELSE Lookup(result_a, item)

\* Variant of slot b without the backfill from slot a.
SlotBNoBackfill(item) == Lookup(result_b, item)

\* merge_and_judge, slot b after `if not b: b = a`.
SlotB(item) ==
    IF Lookup(result_b, item) = NoVerdict
    THEN SlotA(item)
    ELSE Lookup(result_b, item)

\* Variant of the comparison that compares the whole verdicts.
StatusesAgreeWholeVerdict(a, b) == a = b

\* The a['status'] == b['status'] test.
StatusesAgree(a, b) == a.status = b.status

FinalVerdict(name, status, explanation, consensus) ==
    [name |-> name, status |-> status, explanation |-> explanation,
     consensus |-> consensus]

\* Variant of the consensus verdict that carries slot b's explanation.
ConsensusVerdictCriticText(item, a) ==
    FinalVerdict(item, a.status, SlotB(item).explanation, TRUE)

\* The verdict appended when the two slots agree.
ConsensusVerdict(item, a) == FinalVerdict(item, a.status, a.explanation, TRUE)

\* The verdict appended after the Judge ruled.
RuledVerdict(item, ruling) ==
    FinalVerdict(item, ruling.final_status, ruling.final_explanation, FALSE)

mergeUnchanged ==
    <<variant, ingredients, claims, origin_text, all_items, taskState,
      taskResult, logisticsState, logistics_data, result_a, result_b,
      summary, summaryReply, returned, studyVars>>

\* Loop iteration for an item neither agent judged: `if not a: continue`.
MergeSkip ==
    /\ pc = "merge"
    /\ idx <= Len(all_items)
    /\ SlotA(all_items[idx]) = NoVerdict
    /\ idx' = idx + 1
    /\ UNCHANGED <<pc, final_report, judgeCalls, judgeReplies, rulings, calls>>
    /\ UNCHANGED mergeUnchanged

\* Loop iteration for an item whose slots carry the same status.
MergeConsensus ==
    /\ pc = "merge"
    /\ idx <= Len(all_items)
    /\ SlotA(all_items[idx]) # NoVerdict
    /\ StatusesAgree(SlotA(all_items[idx]), SlotB(all_items[idx]))
    /\ final_report' = Append(final_report,
                              ConsensusVerdict(all_items[idx], SlotA(all_items[idx])))
    /\ idx' = idx + 1
    /\ UNCHANGED <<pc, judgeCalls, judgeReplies, rulings, calls>>
    /\ UNCHANGED mergeUnchanged

\* Variant of the conflict branch that does not await the ruling.
AfterTiebreakerCallNoAwait == "merge"

\* `ruling = await call_tiebreaker(item, a, b)`: the loop is suspended until
\* the ruling is there.
AfterTiebreakerCall == "judge"

\* Loop iteration for an item whose slots differ: call_tiebreaker is awaited.
MergeConflict ==
    /\ pc = "merge"
    /\ idx <= Len(all_items)
    /\ SlotA(all_items[idx]) # NoVerdict
    /\ ~StatusesAgree(SlotA(all_items[idx]), SlotB(all_items[idx]))
    /\ judgeCalls' = [judgeCalls EXCEPT ![idx] = @ + 1]
    /\ calls' = [calls EXCEPT !.judge = @ + 1]
    /\ pc' = AfterTiebreakerCall
    /\ UNCHANGED <<idx, final_report, judgeReplies, rulings>>
    /\ UNCHANGED mergeUnchanged

\* call_tiebreaker returns and the loop body builds the verdict from the
\* ruling; a ruling that cannot be subscripted raises out of merge_and_judge
\* and out of the entry point.
TiebreakerReturns ==
    /\ pc = "judge"
    /\ \E reply \in JudgeReplies :
          /\ judgeReplies' = [judgeReplies EXCEPT ![idx] = reply]
          /\ rulings' = [rulings EXCEPT ![idx] = call_tiebreaker(reply)]
          /\ IF RulingSubscriptable(call_tiebreaker(reply))
             THEN /\ final_report' =
                        Append(final_report,
                               RuledVerdict(all_items[idx], call_tiebreaker(reply)))
                  /\ idx' = idx + 1
                  /\ pc' = "merge"
             ELSE /\ pc' = "raised"
                  /\ UNCHANGED <<idx, final_report>>
    /\ UNCHANGED <<judgeCalls, calls>>
    /\ UNCHANGED mergeUnchanged

\* merge_and_judge returns; run_greenwash_audit hands the list to its caller,
\* services goes on to the summary.
MergeReturn ==
    /\ pc = "merge"
    /\ idx > Len(all_items)
    /\ IF variant = "audit_logic"
       THEN /\ returned' = Returned("list", final_report, NoLogistics, Absent)
            /\ pc' = "done"
       ELSE /\ pc' = "summary"
            /\ UNCHANGED returned
    /\ UNCHANGED <<variant, ingredients, claims, origin_text, all_items,
                   taskState, taskResult, logisticsState, logistics_data,
                   result_a, result_b, idx, final_report, judgeCalls,
                   judgeReplies, rulings,
                   summary, summaryReply, calls, studyVars>>

\* Outcome of the summarizer's chat.completions.create: it raised, or it
\* answered with a text.
SummaryReplies == {"exception", "Roast."}

\* Variant of the summarize step without the except branch.
SummaryOutcomeNoFallback(reply) == reply

\* What the summarize step returns once it has called the model: the
\* stripped content, or the fixed text of the except branch.
SummaryOutcome(reply) ==
    IF reply = "exception" THEN "The AI is speechless." ELSE reply

\* Variant of the summarize step that always asks the summarizer.
NothingToSummarizeNever(results) == FALSE

\* `if not final_results`
NothingToSummarize(results) == results = <<>>

\* services.generate_witty_summary followed by the return of
\* analyze_ingredients_parallel.  logistics_data.get sits inside the try
\* block, so a logistics reply that is no object ends in the except branch
\* before the model is called.
Summarize ==
    /\ pc = "summary"
    /\ IF NothingToSummarize(final_report)
       THEN /\ summary' = "I couldn't read the label."
            /\ UNCHANGED <<calls, summaryReply>>
       ELSE IF logistics_data.kind # "dict"
       THEN /\ summary' = "The AI is speechless."
            /\ UNCHANGED <<calls, summaryReply>>
       ELSE /\ \E reply \in SummaryReplies :
                  /\ summary' = SummaryOutcome(reply)
                  /\ summaryReply' = reply
            /\ calls' = [calls EXCEPT !.summarizer = @ + 1]
    /\ returned' = Returned("triple", final_report, logistics_data, summary')
    /\ pc' = "done"
    /\ UNCHANGED <<variant, ingredients, claims, origin_text, all_items,
                   taskState, taskResult, logisticsState, logistics_data,
                   result_a, result_b, idx, final_report, judgeCalls,
                   judgeReplies, rulings,
                   studyVars>>

\* Logistics context a caller hands to generate_final_verdict: the result of
\* logistics_check.analyze_logistics, an object or (json.loads unchecked)
\* JSON that is no object.
VerdictLogistics ==
    {LogisticsData("dict", "Origin is a mystery."), LogisticsData("nondict", Absent)}

\* audit_logic.generate_final_verdict on the list run_greenwash_audit
\* returned.  logistics_data.get sits before the try block, so logistics
\* context that is no object raises out of the function.
GenerateFinalVerdict ==
    /\ pc = "done"
    /\ variant = "audit_logic"
    /\ returned.shape = "list"
    /\ summary = Absent
    /\ \E logistics \in VerdictLogistics :
          /\ logistics_data' = logistics
          /\ IF NothingToSummarize(returned.results)
             THEN /\ summary' = "I couldn't read the label."
                  /\ UNCHANGED <<pc, calls, summaryReply>>
             ELSE IF logistics.kind # "dict"
             THEN /\ pc' = "verdict_raised"
                  /\ UNCHANGED <<summary, calls, summaryReply>>
             ELSE /\ \E reply \in SummaryReplies :
                        /\ summary' = SummaryOutcome(reply)
                        /\ summaryReply' = reply
                  /\ calls' = [calls EXCEPT !.summarizer = @ + 1]
                  /\ UNCHANGED pc
    /\ UNCHANGED <<variant, ingredients, claims, origin_text, all_items,
                   taskState, taskResult, logisticsState,
                   result_a, result_b, idx, final_report, judgeCalls,
                   judgeReplies, rulings, returned,
                   studyVars>>

Next ==
    \/ Start
    \/ \E t \in Tasks : AgentReturns(t)
    \/ LogisticsReturns
    \/ Gather
    \/ MergeSkip
    \/ MergeConsensus
    \/ MergeConflict
    \/ TiebreakerReturns
    \/ MergeReturn
    \/ Summarize
    \/ GenerateFinalVerdict

Spec == Init /\ [][Next]_vars

\* ------------------------------------------------ adapter on its own
\* call_ai_sync as a function of the item set and the model's reply, with the
\* full range of member values (status null or absent, explanation absent,
\* null and bare-string values).
AdapterValues ==
    {JNull, JText}
        \cup {JObject(st, ex) : st \in AgentStatusValues \cup {Absent},
                                ex \in {"Reason", Absent}}

AdapterReplies == RepliesOver(AdapterValues, MaxKeys)

InitAdapter ==
    /\ variant = "audit_logic"
    /\ ingredients = <<>>
    /\ claims = <<>>
    /\ origin_text = "Unknown"
    /\ pc = "classify"
    /\ all_items = <<>>
    /\ taskState = [t \in Tasks |-> "idle"]
    /\ taskResult = [t \in Tasks |-> EmptyReport]
    /\ logisticsState = "idle"
    /\ logistics_data = NoLogistics
    /\ result_a = EmptyReport
    /\ result_b = EmptyReport
    /\ idx = 0
    /\ final_report = <<>>
    /\ judgeCalls = <<>>
    /\ judgeReplies = <<>>
    /\ rulings = <<>>
    /\ summary = Absent
    /\ summaryReply = "none"
    /\ calls = NoCalls
    /\ returned = NotReturned
    /\ adItems \in ItemSets
    /\ adReply \in AdapterReplies
    /\ adReport = EmptyReport
    /\ RerunIdle
    /\ RaceIdle
    /\ ResolverIdle
    /\ AppIdle
    /\ ApiIdle

\* One run of call_ai_sync on the chosen reply.
Classify ==
    /\ pc = "classify"
    /\ adReport' = call_ai_sync(adReply, adItems)
    /\ pc' = "classified"
    /\ UNCHANGED <<variant, ingredients, claims, origin_text, all_items,
                   taskState, taskResult, logisticsState, logistics_data,
                   result_a, result_b, idx, final_report, judgeCalls,
                   judgeReplies, rulings, summary, summaryReply, calls, returned, adItems,
                   adReply, rerunVars, raceVars, resolverVars, appVars, apiVars>>

NextAdapter == Classify

SpecAdapter == InitAdapter /\ [][NextAdapter]_vars

\* ------------------------------------------- the same request, twice
\* The pipeline is run, and then run again on the same ingredients and
\* claims against mocked collaborators: each classifier thread gets the
\* mapping it got in the first run, and the Judge answers a prompt it has
\* seen before as it answered it before.

\* What the Judge is told about position i:
\* TIEBREAKER_PROMPT.format(item=item, status_a=a['status'], status_b=b['status'])
TiebreakerPrompt(i) ==
    <<all_items[i], SlotA(all_items[i]).status, SlotB(all_items[i]).status>>

\* The thread's outcome is the one of the first run.
MockedAgent(t) ==
    run = 2 =>
        /\ taskState'[t] = firstRun.taskState[t]
        /\ taskResult'[t] = firstRun.taskResult[t]

\* The Judge is a function of its prompt, within a run and across the runs.
MockedJudge ==
    /\ \A j \in 1..(idx - 1) :
          (judgeCalls[j] > 0 /\ TiebreakerPrompt(j) = TiebreakerPrompt(idx)) =>
              judgeReplies'[idx] = judgeReplies[j]
    /\ run = 2 =>
          \A j \in DOMAIN firstRun.judgeCalls :
              (firstRun.judgeCalls[j] > 0 /\ TiebreakerPrompt(j) = TiebreakerPrompt(idx)) =>
                  judgeReplies'[idx] = firstRun.judgeReplies[j]

\* The caller keeps the outcome of the first run and calls the entry point
\* again with the same arguments.  Locals of the first call that the second
\* call assigns before reading are left as they are.
Rerun ==
    /\ run = 1
    /\ pc \in {"done", "raised"}
    /\ run' = 2
    /\ firstRun' = RunRecord(pc, returned.results, final_report, taskState,
                         taskResult, judgeReplies, judgeCalls)
    /\ pc' = "start"
    /\ taskState' = [t \in Tasks |-> "idle"]
    /\ logisticsState' = "idle"
    /\ summary' = Absent
    /\ summaryReply' = "none"
    /\ calls' = NoCalls
    /\ returned' = NotReturned
    /\ UNCHANGED <<variant, ingredients, claims, origin_text, all_items,
                   taskResult, logistics_data, result_a, result_b, idx,
                   final_report, judgeCalls, judgeReplies, rulings,
                   adapterVars, raceVars, resolverVars, appVars, apiVars>>

\* The repeated request is one of run_greenwash_audit.
InitRerun ==
    /\ Init
    /\ variant = "audit_logic"

NextRerun ==
    \/ Start
    \/ \E t \in Tasks : AgentReturns(t) /\ MockedAgent(t)
    \/ Gather
    \/ MergeSkip
    \/ MergeConsensus
    \/ MergeConflict
    \/ TiebreakerReturns /\ MockedJudge
    \/ MergeReturn
    \/ Rerun

SpecRerun == InitRerun /\ [][NextRerun]_vars

\* ------------------------------------- the order the threads finish in
\* The pipeline with the completion order of the two classifier threads
\* observed: each thread that finishes is appended to `arrival`.

AgentArrives(t) ==
    /\ AgentFinishes(t)
    /\ arrival' = Append(arrival, t)

NextRace ==
    \/ Start
    \/ \E t \in Tasks : AgentArrives(t)
    \/ LogisticsReturns
    \/ Gather
    \/ MergeSkip
    \/ MergeConsensus
    \/ MergeConflict
    \/ TiebreakerReturns
    \/ MergeReturn
    \/ Summarize

SpecRace == Init /\ [][NextRace]_vars

\* ------------------------------- merge_and_judge, the two implementations
\* TIEBREAKER_PROMPT.format(item=..., status_a=..., status_b=...): the three
\* values the template is filled with (the two templates are the same text).
audit_logic_TIEBREAKER_PROMPT(item, status_a, status_b) == <<item, status_a, status_b>>

services_TIEBREAKER_PROMPT(item, status_a, status_b) == <<item, status_a, status_b>>

\* Variant of services.call_tiebreaker without the except branch.
services_call_tiebreaker_no_fallback(reply) == reply

\* services.call_tiebreaker: bare `except:` around the call and json.loads.
services_call_tiebreaker(reply) ==
    IF reply.kind \in {"exception", "badjson"}
    THEN JudgeReply("dict", "YELLOW", "Judge unavailable.")
    ELSE reply

\* audit_logic.merge_and_judge on the first k items, replies[i] being what
\* the Judge answers if it is asked about position i.
RECURSIVE audit_logic_merge_and_judge(_, _, _, _, _)
audit_logic_merge_and_judge(items, analysis_a, analysis_b, replies, k) ==
    IF k = 0 THEN Resolved("returned", <<>>, <<>>)
    ELSE
      LET before == audit_logic_merge_and_judge(items, analysis_a, analysis_b,
                                                replies, k - 1)
          item == items[k]
          a == IF Lookup(analysis_a, item) = NoVerdict
               THEN Lookup(analysis_b, item)
               ELSE Lookup(analysis_a, item)
          b == IF Lookup(analysis_b, item) = NoVerdict
               THEN a
               ELSE Lookup(analysis_b, item)
          ruling == call_tiebreaker(replies[k])
          prompts == Append(before.asked,
                            audit_logic_TIEBREAKER_PROMPT(item, a.status, b.status))
      IN  IF before.outcome = "raised" THEN before
          ELSE IF a = NoVerdict THEN before
          ELSE IF a.status = b.status
          THEN Resolved("returned",
                        Append(before.report,
                               FinalVerdict(item, a.status, a.explanation, TRUE)),
                        before.asked)
          ELSE IF ruling.kind = "dict" /\ ruling.final_status # Absent
                                       /\ ruling.final_explanation # Absent
          THEN Resolved("returned",
                        Append(before.report,
                               FinalVerdict(item, ruling.final_status,
                                            ruling.final_explanation, FALSE)),
                        prompts)
          ELSE Resolved("raised", <<>>, prompts)

\* services.merge_and_judge on the first k items.
RECURSIVE services_merge_and_judge(_, _, _, _, _)
services_merge_and_judge(items, analysis_a, analysis_b, replies, k) ==
    IF k = 0 THEN Resolved("returned", <<>>, <<>>)
    ELSE
      LET before == services_merge_and_judge(items, analysis_a, analysis_b,
                                             replies, k - 1)
          item == items[k]
          a == IF Lookup(analysis_a, item) = NoVerdict
               THEN Lookup(analysis_b, item)
               ELSE Lookup(analysis_a, item)
          b == IF Lookup(analysis_b, item) = NoVerdict
               THEN a
               ELSE Lookup(analysis_b, item)
          ruling == services_call_tiebreaker(replies[k])
          prompts == Append(before.asked,
                            services_TIEBREAKER_PROMPT(item, a.status, b.status))
      IN  IF before.outcome = "raised" THEN before
          ELSE IF a = NoVerdict THEN before
          ELSE IF a.status = b.status
          THEN Resolved("returned",
                        Append(before.report,
                               FinalVerdict(item, a.status, a.explanation, TRUE)),
                        before.asked)
          ELSE IF ruling.kind = "dict" /\ ruling.final_status # Absent
                                       /\ ruling.final_explanation # Absent
          THEN Resolved("returned",
                        Append(before.report,
                               FinalVerdict(item, ruling.final_status,
                                            ruling.final_explanation, FALSE)),
                        prompts)
          ELSE Resolved("raised", <<>>, prompts)

\* Mappings a classifier thread can return for an item set: any subset of
\* the items, each with a status and the agent's explanation.
AgentMappings(t, items) ==
    UNION {[judged -> {[status |-> st, explanation |-> ExplanationOf(t)] :
                          st \in {"RED", "GREEN"}}] :
           judged \in SUBSET Range(items)}

InitResolver ==
    /\ Init
    /\ variant = "audit_logic"
    /\ ingredients = <<>>
    /\ claims = <<>>

\* One input is fixed: an item set, the two mappings and the Judge's answer
\* for each position.
ResolverInput ==
    /\ resolverRun.items = <<>>
    /\ resolverRun.audit_logic = NotResolved
    /\ resolverRun.services = NotResolved
    /\ \E items \in ItemSets \ {<<>>} :
       \E a \in AgentMappings("task1", items), b \in AgentMappings("task2", items) :
       \E replies \in [1..Len(items) -> JudgeReplies] :
          resolverRun' = ResolverRun(items, a, b, replies, NotResolved, NotResolved)
    /\ UNCHANGED <<pipelineVars, adapterVars, rerunVars, raceVars, appVars, apiVars>>

ResolveAuditLogic ==
    /\ resolverRun.items # <<>>
    /\ resolverRun.audit_logic = NotResolved
    /\ resolverRun' =
          [resolverRun EXCEPT !.audit_logic =
              audit_logic_merge_and_judge(resolverRun.items, resolverRun.analysis_a,
                                          resolverRun.analysis_b, resolverRun.replies,
                                          Len(resolverRun.items))]
    /\ UNCHANGED <<pipelineVars, adapterVars, rerunVars, raceVars, appVars, apiVars>>

ResolveServices ==
    /\ resolverRun.items # <<>>
    /\ resolverRun.services = NotResolved
    /\ resolverRun' =
          [resolverRun EXCEPT !.services =
              services_merge_and_judge(resolverRun.items, resolverRun.analysis_a,
                                       resolverRun.analysis_b, resolverRun.replies,
                                       Len(resolverRun.items))]
    /\ UNCHANGED <<pipelineVars, adapterVars, rerunVars, raceVars, appVars, apiVars>>

NextResolver ==
    \/ ResolverInput
    \/ ResolveAuditLogic
    \/ ResolveServices

SpecResolver == InitResolver /\ [][NextResolver]_vars

\* ------------------------------------------------- app.py, one upload
\* The Streamlit script on one uploaded image: extraction, the halt on a
\* failed scan, scoring and logistics, the verdict and the dashboard.  The
\* product category only feeds prompt text and a caption and is left out.

\* No request of the consensus pipeline is running.
PipelineIdle ==
    /\ variant = "audit_logic"
    /\ ingredients = <<>>
    /\ claims = <<>>
    /\ origin_text = "Unknown"
    /\ pc = "idle"
    /\ all_items = <<>>
    /\ taskState = [t \in Tasks |-> "idle"]
    /\ taskResult = [t \in Tasks |-> EmptyReport]
    /\ logisticsState = "idle"
    /\ logistics_data = NoLogistics
    /\ result_a = EmptyReport
    /\ result_b = EmptyReport
    /\ idx = 0
    /\ final_report = <<>>
    /\ judgeCalls = <<>>
    /\ judgeReplies = <<>>
    /\ rulings = <<>>
    /\ summary = Absent
    /\ summaryReply = "none"
    /\ calls = NoCalls
    /\ returned = NotReturned

ErrorPrefix == <<"E", "r", "r", "o", "r">>

\* f"Error reading image: {str(e)}" (the exception text is left empty).
ErrorReadingText ==
    ErrorPrefix \o <<" ", "r", "e", "a", "d", "i", "n", "g", " ",
                     "i", "m", "a", "g", "e", ":", " ">>

\* A claim printed on a label: "Error-free".
ErrorFreeText == ErrorPrefix \o <<"-", "f", "r", "e", "e">>

\* str.startswith
StartsWith(text, prefix) ==
    /\ Len(text) >= Len(prefix)
    /\ SubSeq(text, 1, Len(prefix)) = prefix

\* Elements the vision model can put into the claims list.
ExtractedClaimPool == {TextElem(NaturalText), TextElem(ErrorFreeText), NumberElem}

\* origin_info values the vision model can write (Absent: member missing).
ExtractedOrigins == {Absent, "Unknown", "", "Made in Brazil"}

\* The except branch of extract_data_from_image.
ErrorData ==
    ExtractedData("dict", TRUE, <<TextElem(ErrorReadingText)>>, TRUE, <<>>, "Unknown")

\* JSON objects the vision model can answer with.
ExtractedObjects ==
    {ExtractedData("dict", TRUE, cl, hasIng, IF hasIng THEN <<PalmOilText>> ELSE <<>>, org) :
        cl \in BoundedSeq(ExtractedClaimPool, MaxItems),
        hasIng \in BOOLEAN, org \in ExtractedOrigins}
    \cup {ExtractedData("dict", FALSE, <<>>, TRUE, <<PalmOilText>>, org) :
              org \in ExtractedOrigins}

\* extract_data_from_image: the call or json.loads raised (the error dict),
\* the content was JSON but no object, or it was an object.
ExtractionOutcomes ==
    {[kind |-> k, data |-> ErrorData] : k \in {"exception", "badjson"}}
    \cup {[kind |-> "nondict", data |-> ExtractedData("nondict", FALSE, <<>>, FALSE, <<>>, Absent)]}
    \cup {[kind |-> "dict", data |-> d] : d \in ExtractedObjects}

\* data.get("claims", [])
GetClaims(d) == IF d.has_claims THEN d.claims ELSE <<>>

\* data.get("ingredients", [])
GetIngredients(d) == IF d.has_ingredients THEN d.ingredients ELSE <<>>

\* data.get("origin_info", "Unknown")
GetOrigin(d) == IF d.origin_info = Absent THEN "Unknown" ELSE d.origin_info

\* claims_list and isinstance(claims_list[0], str) and claims_list[0].startswith("Error")
ScanFailed(claims_list) ==
    /\ claims_list # <<>>
    /\ claims_list[1].kind = "str"
    /\ StartsWith(claims_list[1].text, ErrorPrefix)

InitApp ==
    /\ PipelineIdle
    /\ AdapterIdle
    /\ RerunIdle
    /\ RaceIdle
    /\ ResolverIdle
    /\ ApiIdle
    /\ appPc = "extract"
    /\ extraction = "none"
    /\ data = NoData
    /\ app_ingredients = <<>>
    /\ app_claims = <<>>
    /\ app_origin = "Unknown"
    /\ scores = NoScores
    /\ app_logistics = NoLogisticsIntel
    /\ appCalls = NoAppCalls
    /\ shown = BlankPage

appUnchanged ==
    <<pipelineVars, adapterVars, rerunVars, raceVars, resolverVars, apiVars>>

\* Phase 1: the extraction and the check on its result.  data.get on JSON
\* that is no object raises; a first claim that starts with "Error" stops
\* the script with st.error; otherwise the locals are read from the data.
Extract ==
    /\ appPc = "extract"
    /\ \E out \in ExtractionOutcomes :
          /\ extraction' = out.kind
          /\ data' = out.data
          /\ IF out.data.kind # "dict"
             THEN /\ appPc' = "crashed"
                  /\ UNCHANGED <<shown, appLocals>>
             ELSE IF ScanFailed(GetClaims(out.data))
             THEN /\ appPc' = "stopped"
                  /\ shown' = [shown EXCEPT !.error = GetClaims(out.data)[1].text]
                  /\ UNCHANGED appLocals
             ELSE /\ appPc' = "score"
                  /\ app_ingredients' = GetIngredients(out.data)
                  /\ app_claims' = GetClaims(out.data)
                  /\ app_origin' = GetOrigin(out.data)
                  /\ UNCHANGED shown
    /\ UNCHANGED <<scores, app_logistics, appCalls>>
    /\ UNCHANGED appUnchanged

\* final_total_score values the scoring model can write.
ScorePool == {-5, 0, 70, 100, 150}

\* backend.calculate_scores: the fixed result of the except branch, JSON
\* that is no object, or an object with or without final_total_score.
ScoreOutcomes ==
    {ScoresData("dict", TRUE, 50), ScoresData("nondict", FALSE, 0),
     ScoresData("dict", FALSE, 0)}
    \cup {ScoresData("dict", TRUE, n) : n \in ScorePool}

\* First task of run_calculations.
CalculateScores ==
    /\ appPc = "score"
    /\ scores' \in ScoreOutcomes
    /\ appCalls' = [appCalls EXCEPT !.scoring = @ + 1]
    /\ appPc' = "logistics"
    /\ UNCHANGED <<extraction, data, appLocals, app_logistics, shown>>
    /\ UNCHANGED appUnchanged

\* distance_score_adj values the logistics model can write.
AdjustmentPool == {-5, 0, 10}

\* What backend.analyze_logistics returns once it calls the model: the
\* except branch (no distance_score_adj), JSON that is no object, or an
\* object with or without distance_score_adj.
LogisticsOutcomes ==
    {LogisticsIntel("dict", FALSE, 0), LogisticsIntel("nondict", FALSE, 0)}
    \cup {LogisticsIntel("dict", TRUE, n) : n \in AdjustmentPool}

\* The result of backend.analyze_logistics for an unknown origin.
OriginHiddenIntel == LogisticsIntel("dict", TRUE, 0)

\* Second task of run_calculations: the fixed result without a call when
\* the origin is unknown, the model's answer otherwise.
AnalyzeLogistics ==
    /\ appPc = "logistics"
    /\ IF OriginUnknown(app_origin)
       THEN /\ app_logistics' = OriginHiddenIntel
            /\ UNCHANGED appCalls
       ELSE /\ app_logistics' \in LogisticsOutcomes
            /\ appCalls' = [appCalls EXCEPT !.logistics = @ + 1]
    /\ appPc' = "verdict"
    /\ UNCHANGED <<extraction, data, appLocals, scores, shown>>
    /\ UNCHANGED appUnchanged

\* scores.get('final_total_score', 0) of the Total Score metric.
TotalScoreShown(sc) == IF sc.has_total THEN sc.final_total_score ELSE 0

\* logistics.get('distance_score_adj', 0) of the Food Miles Penalty metric.
PenaltyShown(lg) == IF lg.has_adj THEN lg.distance_score_adj ELSE 0

\* backend.get_verdict and the dashboard.  scores.get raises on scores that
\* are no object before the verdict call; logistics.get raises on logistics
\* that are no object after the Total Score metric is on the page.
Dashboard ==
    /\ appPc = "verdict"
    /\ IF scores.kind # "dict"
       THEN /\ appPc' = "crashed"
            /\ UNCHANGED <<appCalls, shown>>
       ELSE /\ appCalls' = [appCalls EXCEPT !.verdict = @ + 1]
            /\ IF app_logistics.kind # "dict"
               THEN /\ appPc' = "crashed"
                    /\ shown' = Page(<<>>, TRUE, TotalScoreShown(scores), FALSE, 0)
               ELSE /\ appPc' = "dashboard"
                    /\ shown' = Page(<<>>, TRUE, TotalScoreShown(scores),
                                     TRUE, PenaltyShown(app_logistics))
    /\ UNCHANGED <<extraction, data, appLocals, scores, app_logistics>>
    /\ UNCHANGED appUnchanged

NextApp ==
    \/ Extract
    \/ CalculateScores
    \/ AnalyzeLogistics
    \/ Dashboard

SpecApp == InitApp /\ [][NextApp]_vars

\* ------------------------------------------- main.py, POST /analyze
\* analyze_product: the product lookup and the choice of the label text
\* (step 1), the banned additives (step 3), the food-miles penalty (step 4),
\* the analysis by call_llm_analysis (step 6), the final score (step 8) and
\* the validation of the response model.  The token check, the alternatives
\* and the scan history feed neither the texts nor the score and are left
\* out.

FOOD_MILES_THRESHOLD == 6437

\* Distances are whole hundreds of km; miles are kept times MilesScale so
\* that distance_km * 0.621371 is exact.
MilesScale == 10000

\* distance_miles = distance_km * 0.621371, times MilesScale.
DistanceMilesScaled(hkm) == hkm * 621371

\* Geodesic distances between two places, in hundreds of km (at most half
\* the circumference of the Earth).
DistancePool == {0, 30, 64, 65, 103, 104, 200}

\* request.origin_country: None, empty, or a country name.
OriginCountries == {Absent, "", "Thailand"}

\* geolocator.geocode: a location, None, or an exception.
GeocodeOutcomes == {"found", "none", "raises"}

calculate_food_miles_penalty(origin, originLoc, userLoc, hkm) ==
    IF origin = Absent \/ origin = "" THEN 0
    ELSE IF originLoc = "raises" THEN 0
    ELSE IF originLoc = "none" THEN 0
    ELSE IF userLoc = "raises" THEN 0
    ELSE IF userLoc = "none" THEN 0
    ELSE IF DistanceMilesScaled(hkm) > FOOD_MILES_THRESHOLD * MilesScale THEN 10
    ELSE 0

\* What the geocoder and the geodesic can do within one call of
\* calculate_food_miles_penalty: no lookup without an origin, the user's
\* country looked up only after the origin was found, a distance only
\* between two places found.
GeocodeRun(o, u, hkm) == [origin_location |-> o, user_location |-> u, distance_hkm |-> hkm]
GeocodeRuns(origin) ==
    IF origin = Absent \/ origin = ""
    THEN {GeocodeRun("uncalled", "uncalled", 0)}
    ELSE {GeocodeRun(o, "uncalled", 0) : o \in GeocodeOutcomes \ {"found"}}
         \cup {GeocodeRun("found", u, 0) : u \in GeocodeOutcomes \ {"found"}}
         \cup {GeocodeRun("found", "found", hkm) : hkm \in DistancePool}

\* base_health_score values the analysis model can write.
BaseScorePool == {-5, 0, 5, 80, 100, 150}

\* JSON the analysis model can answer with: an object without or with
\* base_health_score, or JSON that is no object.
LlmResults ==
    {LlmResult("dict", FALSE, 0), LlmResult("nondict", FALSE, 0)}
        \cup {LlmResult("dict", TRUE, n) : n \in BaseScorePool}

\* Python truthiness of an Optional[str].
NonEmptyText(t) == t # NoneText /\ t # <<>>

\* `a or b` on two such values.
OrText(a, b) == IF NonEmptyText(a) THEN a ELSE b

\* request.barcode: None or a code.
BarcodePool == {Absent, "3017620422003"}

BarcodeGiven(code) == code # Absent /\ code # ""

\* request.front_text and request.back_text: None, empty, or text.
FrontTextPool == {NoneText, <<>>, NaturalText}
BackTextPool == {NoneText, <<>>, PalmOilText}

OffNameText == <<"J", "a", "m">>

\* fetch_product_from_off: (None, None), or the name and the ingredients of
\* the product, each of which may be missing or empty.
OffResult(name, ings) == [name |-> name, ingredients |-> ings]
OffResults ==
    {OffResult(n, g) : n \in {NoneText, OffNameText}, g \in {NoneText, <<>>, SaltKey}}

\* `(not request.front_text or not request.back_text) and request.barcode`,
\* inside `if request.barcode`.
LooksUpLabel(code, front, back) ==
    /\ BarcodeGiven(code)
    /\ (~NonEmptyText(front) \/ ~NonEmptyText(back))

\* The request is rejected with 404: the label is looked up and the product
\* has no ingredients.
Rejects(code, front, back, off) ==
    /\ LooksUpLabel(code, front, back)
    /\ ~NonEmptyText(off.ingredients)

\* off_front_text and off_back_text after step 1.
OffFrontText(code, front, back, off) ==
    IF LooksUpLabel(code, front, back) /\ NonEmptyText(off.ingredients)
    THEN OrText(off.name, <<>>)
    ELSE NoneText

OffBackText(code, front, back, off) ==
    IF LooksUpLabel(code, front, back) /\ NonEmptyText(off.ingredients)
    THEN off.ingredients
    ELSE NoneText

\* `request.front_text or off_front_text or ""`, likewise for the back text.
FinalText(requested, fromOff) == OrText(OrText(requested, fromOff), <<>>)

InitApi ==
    /\ PipelineIdle
    /\ AdapterIdle
    /\ RerunIdle
    /\ RaceIdle
    /\ ResolverIdle
    /\ AppIdle
    /\ apiPc = "fetch"
    /\ barcode \in BarcodePool
    /\ req_front_text \in FrontTextPool
    /\ req_back_text \in BackTextPool
    /\ groq_client \in BOOLEAN
    /\ gemini_model \in BOOLEAN
    /\ origin_country \in OriginCountries
    /\ off_name = NoneText
    /\ off_ingredients = NoneText
    /\ front_text = <<>>
    /\ back_text = <<>>
    /\ groq_outcome = "uncalled"
    /\ gemini_outcome = "uncalled"
    /\ llm_calls = <<>>
    /\ llm_source = "none"
    /\ origin_location = "uncalled"
    /\ user_location = "uncalled"
    /\ distance_hkm = 0
    /\ banned_count = 0
    /\ llm_result = NoLlmResult
    /\ base_health_score = 0
    /\ food_miles_penalty = 0
    /\ final_score = 0
    /\ response = "none"

apiUnchanged ==
    <<pipelineVars, adapterVars, rerunVars, raceVars, resolverVars, appVars,
      apiRequest>>

\* Step 1: the product is fetched when a barcode came with the request; the
\* request is rejected with 404 or goes on with its front and back text.
FetchStep ==
    /\ apiPc = "fetch"
    /\ \E off \in (IF BarcodeGiven(barcode) THEN OffResults
                                            ELSE {OffResult(NoneText, NoneText)}) :
          /\ off_name' = off.name
          /\ off_ingredients' = off.ingredients
          /\ IF Rejects(barcode, req_front_text, req_back_text, off)
             THEN /\ apiPc' = "http404"
                  /\ response' = "404"
                  /\ UNCHANGED <<front_text, back_text>>
             ELSE /\ front_text' =
                        FinalText(req_front_text,
                                  OffFrontText(barcode, req_front_text, req_back_text, off))
                  /\ back_text' =
                        FinalText(req_back_text,
                                  OffBackText(barcode, req_front_text, req_back_text, off))
                  /\ apiPc' = "banned"
                  /\ UNCHANGED response
    /\ UNCHANGED <<banned_count, apiMiles, apiLlm, apiScore>>
    /\ UNCHANGED apiUnchanged

\* Names in the banned_additives table (the empty text: a row without name).
AdditiveNames == {OilKey, SaltKey, <<>>}

\* supabase.table("banned_additives").select("*").execute(): it raises, or
\* it answers with the rows of the table.
AdditiveTable(k, rows) == [kind |-> k, rows |-> rows]
AdditiveTables ==
    {AdditiveTable("raises", <<>>)}
        \cup {AdditiveTable("rows", rows) : rows \in BoundedSeq(AdditiveNames, 2)}

\* check_banned_additives: the number of rows whose name, lower-cased, is
\* not empty and occurs in the lower-cased text; 0 when the lookup raised.
check_banned_additives(text, table) ==
    IF table.kind = "raises" THEN 0
    ELSE Cardinality({i \in DOMAIN table.rows :
                         /\ table.rows[i] # <<>>
                         /\ Contains(Lower(text), Lower(table.rows[i]))})

\* Step 3.
BannedStep ==
    /\ apiPc = "banned"
    /\ \E table \in AdditiveTables :
          banned_count' = check_banned_additives(back_text, table)
    /\ apiPc' = "miles"
    /\ UNCHANGED <<apiFetched, apiMiles, apiLlm, apiScore, response>>
    /\ UNCHANGED apiUnchanged

\* Step 4.
FoodMilesStep ==
    /\ apiPc = "miles"
    /\ \E geo \in GeocodeRuns(origin_country) :
          /\ origin_location' = geo.origin_location
          /\ user_location' = geo.user_location
          /\ distance_hkm' = geo.distance_hkm
          /\ food_miles_penalty' =
                calculate_food_miles_penalty(origin_country, geo.origin_location,
                                             geo.user_location, geo.distance_hkm)
    /\ apiPc' = "groq"
    /\ UNCHANGED <<apiFetched, banned_count, apiLlm, apiScore, response>>
    /\ UNCHANGED apiUnchanged

\* A provider's call followed by strip_markdown_json and json.loads: the
\* call raised, the content did not parse, or it parsed to `result`.
ProviderReply(k, result) == [kind |-> k, result |-> result]
ProviderReplies ==
    {ProviderReply(k, NoLlmResult) : k \in {"exception", "badjson"}}
        \cup {ProviderReply("parsed", r) : r \in LlmResults}

\* The `except Exception` of a provider's try block is entered.
ProviderFailed(reply) == reply.kind \in {"exception", "badjson"}

\* The ultimate fallback of call_llm_analysis.
FallbackResult == LlmResult("dict", TRUE, 50)

\* Variant of call_llm_analysis that gives up after the first provider.
AfterGroqGivesUp == "fallback"

\* Where call_llm_analysis goes when Groq is not configured or has failed.
AfterGroq == "gemini"

llmUnchanged ==
    <<apiFetched, banned_count, apiMiles, apiScore, response>>

\* call_llm_analysis, the Groq block.
GroqStep ==
    /\ apiPc = "groq"
    /\ IF groq_client
       THEN \E reply \in ProviderReplies :
               /\ llm_calls' = Append(llm_calls, "groq")
               /\ groq_outcome' = reply.kind
               /\ IF ProviderFailed(reply)
                  THEN /\ apiPc' = AfterGroq
                       /\ UNCHANGED <<llm_result, llm_source>>
                  ELSE /\ llm_result' = reply.result
                       /\ llm_source' = "groq"
                       /\ apiPc' = "score"
       ELSE /\ apiPc' = AfterGroq
            /\ UNCHANGED <<llm_calls, groq_outcome, llm_result, llm_source>>
    /\ UNCHANGED gemini_outcome
    /\ UNCHANGED llmUnchanged
    /\ UNCHANGED apiUnchanged

\* call_llm_analysis, the Gemini block.
GeminiStep ==
    /\ apiPc = "gemini"
    /\ IF gemini_model
       THEN \E reply \in ProviderReplies :
               /\ llm_calls' = Append(llm_calls, "gemini")
               /\ gemini_outcome' = reply.kind
               /\ IF ProviderFailed(reply)
                  THEN /\ apiPc' = "fallback"
                       /\ UNCHANGED <<llm_result, llm_source>>
                  ELSE /\ llm_result' = reply.result
                       /\ llm_source' = "gemini"
                       /\ apiPc' = "score"
       ELSE /\ apiPc' = "fallback"
            /\ UNCHANGED <<llm_calls, gemini_outcome, llm_result, llm_source>>
    /\ UNCHANGED groq_outcome
    /\ UNCHANGED llmUnchanged
    /\ UNCHANGED apiUnchanged

\* call_llm_analysis, the last return statement.
FallbackStep ==
    /\ apiPc = "fallback"
    /\ llm_result' = FallbackResult
    /\ llm_source' = "fallback"
    /\ apiPc' = "score"
    /\ UNCHANGED <<groq_outcome, gemini_outcome, llm_calls>>
    /\ UNCHANGED llmUnchanged
    /\ UNCHANGED apiUnchanged

Max(a, b) == IF a >= b THEN a ELSE b

\* Variant of the final score without the zero-tolerance rule.
FinalScoreIgnoresBanned(banned, base, penalty) == Max(0, base - penalty)

\* The zero-tolerance rule, else max(0, base - penalty).
FinalScore(banned, base, penalty) ==
    IF banned > 0 THEN 0 ELSE Max(0, base - penalty)

\* Step 8.  llm_result.get raises on a result that is no object.
ScoreStep ==
    /\ apiPc = "score"
    /\ IF llm_result.kind # "dict"
       THEN /\ apiPc' = "raised"
            /\ response' = "500"
            /\ UNCHANGED <<base_health_score, final_score>>
       ELSE /\ base_health_score' =
                  (IF llm_result.has_base THEN llm_result.base_health_score ELSE 50)
            /\ final_score' =
                  FinalScore(banned_count, base_health_score', food_miles_penalty)
            /\ apiPc' = "respond"
            /\ UNCHANGED response
    /\ UNCHANGED <<apiFetched, banned_count, apiMiles, apiLlm>>
    /\ UNCHANGED apiUnchanged

\* The Field constraints of AnalyzeResponse.
ResponseValid ==
    /\ final_score \in 0..100
    /\ base_health_score \in 0..100
    /\ food_miles_penalty \in 0..10

\* `return AnalyzeResponse(...)`: the model validates its fields and raises
\* on a value out of range.
Respond ==
    /\ apiPc = "respond"
    /\ response' = (IF ResponseValid THEN "ok" ELSE "validation_error")
    /\ apiPc' = "done"
    /\ UNCHANGED <<apiFetched, banned_count, apiMiles, apiLlm, apiScore>>
    /\ UNCHANGED apiUnchanged

NextApi ==
    \/ FetchStep
    \/ BannedStep
    \/ FoodMilesStep
    \/ GroqStep
    \/ GeminiStep
    \/ FallbackStep
    \/ ScoreStep
    \/ Respond

SpecApi == InitApi /\ [][NextApi]_vars

\* ---------------------------------------------------------- properties
\* Vocabulary of the properties, stated over the agents' mappings and the
\* list being built, independently of the merge operators above.

\* merge_and_judge has been entered (the gather has delivered both mappings).
Merging == pc \in {"merge", "judge", "summary", "done", "raised", "verdict_raised"}

JudgedByA(i) == all_items[i] \in DOMAIN result_a
JudgedByB(i) == all_items[i] \in DOMAIN result_b
Judged(i) == JudgedByA(i) \/ JudgedByB(i)

\* The loop has finished the iteration for position i.
Processed(i) == Merging /\ i \in DOMAIN all_items /\ i < idx

\* Where the verdict of position i sits in the list: dropped items leave no
\* entry, so it is the number of judged positions up to i.
Slot(i) == Cardinality({k \in 1..i : Judged(k)})

HasVerdict(i) == Judged(i) /\ Slot(i) <= Len(final_report)

VerdictOf(i) == final_report[Slot(i)]

Disagree(i) ==
    /\ JudgedByA(i)
    /\ JudgedByB(i)
    /\ result_a[all_items[i]].status # result_b[all_items[i]].status

AgentsAgreeEverywhere == \A i \in DOMAIN all_items : ~Disagree(i)

\* C1: when the two agents give the same status for every item both judged,
\* every FinalVerdict has consensus = TRUE and the Judge is never invoked.
AgreementNeverInvokesJudge ==
    (Merging /\ AgentsAgreeEverywhere) =>
        /\ \A k \in DOMAIN final_report : final_report[k].consensus = TRUE
        /\ calls.judge = 0
        /\ \A i \in DOMAIN all_items : judgeCalls[i] = 0
        /\ pc \notin {"judge", "raised"}

\* C1 witness: a finished run in which both agents judged two items, with
\* equal statuses on each, and both verdicts are in the report.
AgreementWitness ==
    /\ pc = "done"
    /\ Len(all_items) = 2
    /\ AgentsAgreeEverywhere
    /\ \A i \in DOMAIN all_items : JudgedByA(i) /\ JudgedByB(i)
    /\ result_a[all_items[1]].status # result_a[all_items[2]].status
    /\ Len(returned.results) = 2

\* C2 as stated: every item on which the agents disagree gets exactly one
\* Judge call and a FinalVerdict with consensus = FALSE that carries the
\* Judge's status and explanation.
DisagreementArbitratedOnce ==
    pc \in {"summary", "done", "raised"} =>
        \A i \in DOMAIN all_items :
            Disagree(i) =>
                /\ judgeCalls[i] = 1
                /\ HasVerdict(i)
                /\ VerdictOf(i) =
                       FinalVerdict(all_items[i], rulings[i].final_status,
                                    rulings[i].final_explanation, FALSE)

\* C3: an item only one agent judged, once the loop has passed it, has a
\* FinalVerdict equal to that agent's verdict with consensus = TRUE, and the
\* Judge was not invoked for it.
SingleOpinionBackfill ==
    \A i \in DOMAIN all_items :
        (Processed(i) /\ JudgedByA(i) # JudgedByB(i)) =>
            /\ HasVerdict(i)
            /\ VerdictOf(i) =
                   (IF JudgedByA(i)
                    THEN FinalVerdict(all_items[i], result_a[all_items[i]].status,
                                      result_a[all_items[i]].explanation, TRUE)
                    ELSE FinalVerdict(all_items[i], result_b[all_items[i]].status,
                                      result_b[all_items[i]].explanation, TRUE))
            /\ judgeCalls[i] = 0

\* C3 witness: a finished run with one item judged by agent A alone and
\* another judged by agent B alone.
SingleOpinionWitness ==
    /\ pc = "done"
    /\ \E i, j \in DOMAIN all_items :
          /\ JudgedByA(i) /\ ~JudgedByB(i)
          /\ JudgedByB(j) /\ ~JudgedByA(j)
    /\ Len(returned.results) = 2

\* C4: an item neither agent judged has no FinalVerdict in the report; the
\* report is never longer than the item set and is strictly shorter when an
\* item was dropped.
UnjudgedItemsDropped ==
    /\ Merging => Len(final_report) <= Len(all_items)
    /\ (pc = "done" /\ returned.shape # "pair") =>
          /\ returned.results = final_report
          /\ Len(returned.results) = Cardinality({i \in DOMAIN all_items : Judged(i)})
          /\ \A k \in DOMAIN returned.results :
                \E i \in DOMAIN all_items :
                    Judged(i) /\ returned.results[k].name = all_items[i]
          /\ (\E i \in DOMAIN all_items : ~Judged(i)) =>
                Len(returned.results) < Len(all_items)

\* C4 witness: a finished run that dropped one item and kept another.
DroppedItemWitness ==
    /\ pc = "done"
    /\ \E i, j \in DOMAIN all_items : ~Judged(i) /\ Judged(j)
    /\ Len(returned.results) = 1

JudgeCallFailed(i) == judgeReplies[i].kind \in {"exception", "badjson"}

\* C5: when the Judge call fails for an item, the item's FinalVerdict is
\* YELLOW / "Judge unavailable." / consensus = FALSE whatever the agents said,
\* and the failure does not raise out of merge_and_judge.
JudgeFailureFallsBackToYellow ==
    \A i \in DOMAIN all_items :
        (Merging /\ JudgeCallFailed(i)) =>
            /\ HasVerdict(i)
            /\ VerdictOf(i) =
                   FinalVerdict(all_items[i], "YELLOW", "Judge unavailable.", FALSE)
            /\ ~(pc = "raised" /\ idx = i)

\* C5 witness: a finished run in which the Judge failed on an item that one
\* agent called RED and the other GREEN.
JudgeFailureWitness ==
    /\ pc = "done"
    /\ \E i \in DOMAIN all_items :
          /\ JudgeCallFailed(i)
          /\ Disagree(i)
          /\ {result_a[all_items[i]].status, result_b[all_items[i]].status}
                = {"RED", "GREEN"}

\* C6 as stated: every FinalVerdict.status is RED, YELLOW or GREEN.
FinalStatusEnumerated ==
    \A k \in DOMAIN final_report : final_report[k].status \in Status

\* C7 as stated: the status the adapter stores for a matched item is RED,
\* YELLOW or GREEN, and is YELLOW when the agent's entry omits status or gives
\* a value outside that set.
AdapterNormalizesStatus ==
    pc = "classified" =>
        \A it \in DOMAIN adReport :
            /\ adReport[it].status \in Status
            /\ FoundData(it, adReply.entries).status \notin Status
                  => adReport[it].status = "YELLOW"

\* C8: with no ingredients and no claims the entry point returns an empty
\* list and its fixed narrative, and no external call is made.
EmptyInputShortCircuits ==
    (ingredients = <<>> /\ claims = <<>> /\ pc \in {"gather", "merge", "judge", "summary", "done", "raised", "verdict_raised"}) =>
        /\ pc = "done"
        /\ returned.results = <<>>
        /\ returned.narrative =
               (IF variant = "audit_logic" THEN "No items to analyze."
                                           ELSE "No ingredients found.")
        /\ calls = NoCalls
        /\ \A t \in Tasks : taskState[t] = "idle"
        /\ logisticsState = "idle"

\* C8 witness: the services entry point has returned on empty input.
EmptyInputWitness ==
    /\ variant = "services"
    /\ ingredients = <<>>
    /\ claims = <<>>
    /\ origin_text = "Made in Brazil"
    /\ pc = "done"

ThreadFailed(t) == taskState[t] \in {"exception", "badjson"}
ThreadAnswered(t) == taskState[t] \in {"dict", "nondict"}

\* The report when only the mapping `survivor` contributes: its verdict for
\* every item it judged, in item order, each with consensus = TRUE.
RECURSIVE SoloReport(_, _)
SoloReport(items, survivor) ==
    IF items = <<>> THEN <<>>
    ELSE (IF Head(items) \in DOMAIN survivor
          THEN <<FinalVerdict(Head(items), survivor[Head(items)].status,
                              survivor[Head(items)].explanation, TRUE)>>
          ELSE <<>>) \o SoloReport(Tail(items), survivor)

Other(t) == IF t = "task1" THEN "task2" ELSE "task1"

\* C9: when exactly one of the two agent calls fails, the failed call counts
\* as an empty mapping, the request neither raises nor stalls, and the report
\* is the surviving agent's verdicts, item by item.
OneAgentFailureIsEmptyMapping ==
    \A t \in Tasks :
        (ThreadFailed(t) /\ ThreadAnswered(Other(t))) =>
            /\ taskResult[t] = EmptyReport
            /\ pc \notin {"judge", "raised"}
            /\ returned = NotReturned => ENABLED Next
            /\ Merging =>
                  /\ result_a = taskResult["task1"]
                  /\ result_b = taskResult["task2"]
                  /\ final_report =
                        SoloReport(SubSeq(all_items, 1, idx - 1), taskResult[Other(t)])
            /\ (pc = "done") =>
                  returned.results = SoloReport(all_items, taskResult[Other(t)])

\* C9 witness: a finished run in which the Scientist's call failed and the
\* Critic judged both items.
OneAgentFailureWitness ==
    /\ pc = "done"
    /\ ThreadFailed("task1")
    /\ ThreadAnswered("task2")
    /\ Len(all_items) = 2
    /\ Len(returned.results) = 2

\* C10 as stated: whatever the agents, the Judge and the summarizer return,
\* the pipeline does not raise to its caller.
PipelineNeverRaises == pc # "raised"

\* C11: merge_and_judge runs only after both classifier threads of the
\* request have returned (with a mapping or with the empty fallback), and
\* the mappings it reads are exactly the ones the threads returned.
MergeAfterBothAgents ==
    (Merging /\ all_items # <<>>) =>
        /\ \A t \in Tasks : taskState[t] \notin {"idle", "running"}
        /\ calls.classifier = Cardinality(Tasks)
        /\ result_a = taskResult["task1"]
        /\ result_b = taskResult["task2"]
        /\ variant = "services" => logisticsState = "done"

\* C11 witness: the merge is under way after one thread returned a mapping
\* and the other fell back to the empty one.
MergeAfterBothWitness ==
    /\ pc = "merge"
    /\ idx = 2
    /\ taskState["task1"] = "exception"
    /\ taskState["task2"] = "dict"
    /\ result_b # EmptyReport
    /\ Len(final_report) = 1

\* C13 as stated: no item text occurs in more than one FinalVerdict of the
\* report, also when the item set holds the same text more than once.
ReportNamesDistinct ==
    \A k, l \in DOMAIN final_report :
        k # l => final_report[k].name # final_report[l].name

\* Python list order: sub can be obtained from full by deleting elements.
RECURSIVE IsSubsequence(_, _)
IsSubsequence(sub, full) ==
    IF sub = <<>> THEN TRUE
    ELSE IF full = <<>> THEN FALSE
    ELSE IF Head(sub) = Head(full) THEN IsSubsequence(Tail(sub), Tail(full))
    ELSE IsSubsequence(sub, Tail(full))

NamesOf(report) == [k \in DOMAIN report |-> report[k].name]

\* C20: the item set is the ingredients followed by the claims, each in input
\* order with duplicates kept, and the names in the report (while it is built
\* and when it is returned) form a subsequence of the item set.
ReportIsSubsequenceOfItemSet ==
    /\ pc # "start" => all_items = ingredients \o claims
    /\ IsSubsequence(NamesOf(final_report), all_items)
    /\ pc = "done" => IsSubsequence(NamesOf(returned.results), ingredients \o claims)

\* C20 witness: a returned report that holds an ingredient and then a claim.
SubsequenceWitness ==
    /\ pc = "done"
    /\ ingredients = <<PalmOilText>>
    /\ claims = <<NaturalText>>
    /\ NamesOf(returned.results) = <<PalmOilText, NaturalText>>

\* C14: when the summarizer call fails, the summarize step returns its fixed
\* text instead of raising, and the FinalVerdict list handed to the caller
\* is the list merge_and_judge computed.
SummarizerFailureFallsBack ==
    summaryReply = "exception" =>
        /\ summary = "The AI is speechless."
        /\ pc = "done"
        /\ returned.shape \in {"list", "triple"}
        /\ returned.results = final_report
        /\ returned.shape = "triple" => returned.narrative = summary

\* C14 witness: in services, the summarizer failed behind a two-entry
\* report.
SummarizerFailureWitness ==
    /\ summaryReply = "exception"
    /\ variant = "services"
    /\ Len(returned.results) = 2

\* C16 as stated, in the form a finite run refutes: a request never comes to
\* rest without having returned a report; whatever an external call does (an
\* answer, a failure, a timeout surfacing as an exception), the request goes
\* on until the report is returned.
RequestAlwaysReturnsReport ==
    (pc # "start" /\ returned = NotReturned) => ENABLED Next

\* C12: with the agents' mappings and the Judge's replies fixed, the re-run
\* of the pipeline on the same item set ends as the first run did and
\* produces the same FinalVerdict list: same length, order, names, statuses,
\* explanations and consensus flags.
RerunSameReport ==
    (run = 2 /\ pc \in {"done", "raised"}) =>
        /\ pc = firstRun.pc
        /\ final_report = firstRun.final_report
        /\ returned.results = firstRun.results

\* C12 witness: a re-run has returned a two-entry list, one entry by
\* consensus and one ruled by the Judge.
RerunWitness ==
    /\ run = 2
    /\ pc = "done"
    /\ Len(returned.results) = 2
    /\ returned.results[1].consensus # returned.results[2].consensus

\* The extraction did not produce a label reading.
ExtractionFailed == extraction \in {"exception", "badjson", "nondict"}

\* C15 as stated: a failed extraction halts the script with an error on the
\* page before any scoring, logistics or verdict call and without a score
\* shown; and the script stops with the scan error only when the extraction
\* failed.
ExtractionFailureHalts ==
    /\ (appPc # "extract" /\ ExtractionFailed) =>
          /\ appPc \in {"stopped", "crashed"}
          /\ appCalls = NoAppCalls
          /\ ~shown.has_score
    /\ appPc = "stopped" =>
          /\ shown.error # <<>>
          /\ ExtractionFailed

\* C17 as stated: the score a finished request shows is within 0..100.
ShownScoreInRange ==
    shown.has_score => shown.score \in 0..100

\* C18 as stated: the Total Score on the dashboard is the scoring result
\* plus the logistics adjustment.
ShownScoreAddsLogistics ==
    appPc = "dashboard" =>
        shown.score = TotalScoreShown(scores) + PenaltyShown(app_logistics)

\* Both places were geocoded.
Located ==
    /\ origin_country \notin {Absent, ""}
    /\ origin_location = "found"
    /\ user_location = "found"

\* C19 as stated: the penalty is 10 exactly when origin and user are located
\* more than 4000 miles apart, and 0 otherwise.
FoodMilesPenaltyAboveFourThousandMiles ==
    apiPc \in {"groq", "gemini", "fallback", "score", "respond", "done", "raised"} =>
        food_miles_penalty =
            (IF Located /\ DistanceMilesScaled(distance_hkm) > 4000 * MilesScale
             THEN 10 ELSE 0)

\* Positions of the agent's mapping whose key passes the substring test
\* against the item.
MatchingKeys(item, entries) ==
    {i \in DOMAIN entries : KeyMatches(item, entries[i].key)}

\* C21 as stated: an item has a verdict from the agent exactly when at least
\* one returned key matches it, and the verdict is then taken from the first
\* matching key in the order of the mapping.
FirstMatchingKeyDecides ==
    pc = "classified" =>
        \A it \in Range(adItems) :
            LET matching == MatchingKeys(it, adReply.entries)
            IN  /\ (it \in DOMAIN adReport) <=> (matching # {})
                /\ it \in DOMAIN adReport =>
                      LET lowest == CHOOSE i \in matching : \A j \in matching : i <= j
                          entry == adReply.entries[lowest].val
                      IN  adReport[it] =
                              [status |-> GetOr(entry, "status", "YELLOW"),
                               explanation |-> GetOr(entry, "explanation", "Analyzed")]

\* C22: an item both agents judged with equal statuses gets a FinalVerdict
\* with the shared status, consensus = TRUE and the explanation of agent A,
\* the Scientist (the thread of the primary model).
ConsensusCarriesScientistExplanation ==
    \A i \in DOMAIN all_items :
        (Processed(i) /\ JudgedByA(i) /\ JudgedByB(i) /\ ~Disagree(i)) =>
            /\ result_a = taskResult["task1"]
            /\ HasVerdict(i)
            /\ VerdictOf(i) =
                   FinalVerdict(all_items[i], taskResult["task1"][all_items[i]].status,
                                taskResult["task1"][all_items[i]].explanation, TRUE)

\* C22 witness: a finished run with an item both agents called RED, each in
\* its own words, whose verdict carries the Scientist's words.
ConsensusExplanationWitness ==
    /\ pc = "done"
    /\ \E i \in DOMAIN all_items :
          /\ JudgedByA(i) /\ JudgedByB(i) /\ ~Disagree(i)
          /\ result_a[all_items[i]].explanation = ExplanationOf("task1")
          /\ result_b[all_items[i]].explanation = ExplanationOf("task2")
          /\ returned.results[Slot(i)].explanation = ExplanationOf("task1")

\* Step 8 has computed the final score.
Scored == apiPc \in {"respond", "done"}

\* C23 as stated: with a banned additive matched the final score is 0;
\* otherwise it is max(0, base_health_score - food_miles_penalty) and never
\* exceeds base_health_score.
FinalScoreNeverExceedsBase ==
    Scored =>
        /\ banned_count > 0 => final_score = 0
        /\ banned_count = 0 =>
              /\ final_score = Max(0, base_health_score - food_miles_penalty)
              /\ final_score <= base_health_score

\* C23, amended: with a banned additive matched the final score is 0
\* whatever the base score and the penalty; otherwise it is
\* max(0, base_health_score - food_miles_penalty) and never exceeds
\* base_health_score unless base_health_score is negative, where it is 0.
FinalScoreZeroToleranceElseFloored ==
    Scored =>
        /\ banned_count > 0 => final_score = 0
        /\ banned_count = 0 =>
              /\ final_score = Max(0, base_health_score - food_miles_penalty)
              /\ base_health_score >= 0 => final_score <= base_health_score
              /\ base_health_score < 0 => final_score = 0

\* C23 witness: a delivered response for a product with banned additives, a
\* base score of 80 and the food-miles penalty applied.
ZeroToleranceWitness ==
    /\ apiPc = "done"
    /\ response = "ok"
    /\ banned_count > 0
    /\ base_health_score = 80
    /\ food_miles_penalty = 10
    /\ final_score = 0

\* A provider is out: not configured, or its call or the parse of its
\* answer failed.
GroqOut == ~groq_client \/ groq_outcome \in {"exception", "badjson"}
GeminiOut == ~gemini_model \/ gemini_outcome \in {"exception", "badjson"}

\* call_llm_analysis has returned.
LlmReturned == apiPc \in {"score", "respond", "done", "raised"}

\* C24: call_llm_analysis calls Groq first when it is configured, calls
\* Gemini only with Groq out, returns the fixed fallback result only with
\* both out, calls each provider at most once, never one that is not
\* configured, and always returns a result.
LlmProvidersTriedInOrder ==
    /\ llm_calls \in {<<>>, <<"groq">>, <<"gemini">>, <<"groq", "gemini">>}
    /\ (groq_client /\ apiPc \notin {"fetch", "banned", "miles", "groq", "http404"}) =>
          (llm_calls # <<>> /\ llm_calls[1] = "groq")
    /\ (\E k \in DOMAIN llm_calls : llm_calls[k] = "groq") => groq_client
    /\ (\E k \in DOMAIN llm_calls : llm_calls[k] = "gemini") =>
          (gemini_model /\ GroqOut)
    /\ llm_source = "groq" => (groq_outcome = "parsed" /\ gemini_outcome = "uncalled")
    /\ llm_source = "gemini" => (GroqOut /\ gemini_outcome = "parsed")
    /\ llm_source = "fallback" =>
          /\ GroqOut
          /\ GeminiOut
          /\ llm_result = LlmResult("dict", TRUE, 50)
    /\ LlmReturned <=> llm_source # "none"

\* C24 witness: the request was answered from the fallback result after
\* Groq and then Gemini were called and both failed.
LlmFallbackWitness ==
    /\ apiPc = "done"
    /\ llm_calls = <<"groq", "gemini">>
    /\ llm_source = "fallback"
    /\ base_health_score = 50

\* C25 as stated: a text the user supplied is the text analysed, and the
\* request is rejected with 404 only when it has a barcode, the user
\* supplied no back text and the product has no ingredients; a request with
\* back text from the user is never rejected.
UserTextNeverRejected ==
    /\ apiPc \notin {"fetch", "http404"} =>
          /\ NonEmptyText(req_front_text) => front_text = req_front_text
          /\ NonEmptyText(req_back_text) => back_text = req_back_text
    /\ apiPc = "http404" =>
          /\ BarcodeGiven(barcode)
          /\ ~NonEmptyText(req_back_text)
          /\ ~NonEmptyText(off_ingredients)

\* C26: members the extractor left out are read as empty sequences and as
\* the origin "Unknown"; with the origin missing, empty or "Unknown" the
\* logistics step makes no external call and returns its fixed result; and
\* none of this stops or crashes the run.
MissingFieldsAreNotFatal ==
    (extraction = "dict" /\ appPc \notin {"extract", "stopped"}) =>
        /\ ~data.has_ingredients => app_ingredients = <<>>
        /\ ~data.has_claims => app_claims = <<>>
        /\ data.origin_info = Absent => app_origin = "Unknown"
        /\ (data.origin_info \in {Absent, "", "Unknown"}
             /\ appPc \in {"verdict", "dashboard", "crashed"}) =>
              /\ appCalls.logistics = 0
              /\ app_logistics = LogisticsIntel("dict", TRUE, 0)
        /\ (appPc = "crashed" /\ scores.kind = "dict") =>
              (data.origin_info \notin {Absent, "", "Unknown"}
               /\ app_logistics.kind = "nondict")

\* C26 witness: the dashboard is up for a label read without claims and
\* without origin.
MissingFieldsWitness ==
    /\ appPc = "dashboard"
    /\ ~data.has_claims
    /\ data.origin_info = Absent
    /\ shown.has_penalty
    /\ appCalls.scoring = 1

\* Positions whose Judge call has been issued and has not come back.
JudgeInFlight == {i \in DOMAIN judgeCalls : judgeCalls[i] > 0 /\ judgeReplies[i] = NoRuling}

\* C28: Judge calls are issued one at a time in item order: at most one is
\* in flight, and only while the loop waits at that item; a call for an
\* item is issued only after every earlier judged item has its FinalVerdict
\* and every earlier call has come back; and nothing is returned while a
\* call is in flight.
JudgeCallsOneAtATime ==
    /\ Cardinality(JudgeInFlight) <= 1
    /\ JudgeInFlight # {} <=> pc = "judge"
    /\ pc = "judge" => JudgeInFlight = {idx}
    /\ \A i \in DOMAIN judgeCalls :
          judgeCalls[i] > 0 =>
              /\ judgeCalls[i] = 1
              /\ i <= idx
              /\ \A j \in 1..(i - 1) :
                    /\ Judged(j) => HasVerdict(j)
                    /\ judgeCalls[j] > 0 => judgeReplies[j] # NoRuling
    /\ returned # NotReturned => JudgeInFlight = {}

\* C28 witness: the loop waits for the Judge at the second item after the
\* Judge has ruled on the first.
SecondJudgeCallWitness ==
    /\ pc = "judge"
    /\ idx = 2
    /\ judgeCalls = <<1, 1>>
    /\ judgeReplies[1] # NoRuling
    /\ Len(final_report) = 1
    /\ ~final_report[1].consensus

\* C30: the summarize step returns "I couldn't read the label." for an
\* empty FinalVerdict list without asking the summarizer, and the
\* summarizer is asked only about a list that is not empty.
EmptyReportNotSummarized ==
    /\ calls.summarizer > 0 => final_report # <<>>
    /\ summaryReply # "none" => final_report # <<>>
    /\ (summary # Absent /\ final_report = <<>>) =>
          /\ summary = "I couldn't read the label."
          /\ calls.summarizer = 0
    /\ (pc = "done" /\ returned.shape = "triple" /\ final_report = <<>>
         /\ all_items # <<>>) =>
          returned.narrative = "I couldn't read the label."

\* C30 witness: services has returned for a label whose items were all
\* dropped although both agents answered.
EmptyReportWitness ==
    /\ variant = "services"
    /\ pc = "done"
    /\ all_items # <<>>
    /\ \A t \in Tasks : taskState[t] = "dict"
    /\ returned.results = <<>>
    /\ returned.narrative = "I couldn't read the label."

\* What the report holds for position i, from the mappings the Scientist's
\* thread (task1) and the Critic's thread (task2) returned and the ruling
\* for that position.
ExpectedEntry(i) ==
    LET name == all_items[i]
        scientist == taskResult["task1"]
        critic == taskResult["task2"]
    IN  IF name \notin DOMAIN scientist /\ name \notin DOMAIN critic THEN <<>>
        ELSE IF name \notin DOMAIN critic
        THEN <<FinalVerdict(name, scientist[name].status, scientist[name].explanation, TRUE)>>
        ELSE IF name \notin DOMAIN scientist
        THEN <<FinalVerdict(name, critic[name].status, critic[name].explanation, TRUE)>>
        ELSE IF scientist[name].status = critic[name].status
        THEN <<FinalVerdict(name, scientist[name].status, scientist[name].explanation, TRUE)>>
        ELSE <<FinalVerdict(name, rulings[i].final_status,
                            rulings[i].final_explanation, FALSE)>>

RECURSIVE ExpectedReport(_)
ExpectedReport(k) ==
    IF k = 0 THEN <<>> ELSE ExpectedReport(k - 1) \o ExpectedEntry(k)

\* C27: whichever classifier thread finishes first, slot A is the mapping of
\* the primary model's thread and slot B the one of the secondary model's,
\* and the report is the one these two mappings and the rulings determine.
CompletionOrderIrrelevant ==
    (Merging /\ all_items # <<>>) =>
        /\ Len(arrival) = 2
        /\ result_a = taskResult["task1"]
        /\ result_b = taskResult["task2"]
        /\ final_report = ExpectedReport(idx - 1)
        /\ pc = "done" => returned.results = ExpectedReport(Len(all_items))

\* C27 witness: the Critic's thread finished first, the two mappings
\* differ, and the returned report opens with the Scientist's verdict.
CriticFirstWitness ==
    /\ pc = "done"
    /\ arrival = <<"task2", "task1">>
    /\ all_items[1] \in DOMAIN result_a
    /\ all_items[1] \in DOMAIN result_b
    /\ Len(returned.results) = 2
    /\ returned.results[1].consensus
    /\ returned.results[1].explanation = ExplanationOf("task1")

BothResolved ==
    /\ resolverRun.audit_logic # NotResolved
    /\ resolverRun.services # NotResolved

\* C29: on the same item set, pair of mappings and Judge answers,
\* audit_logic.merge_and_judge and services.merge_and_judge end the same way
\* (both return or both raise), return the same list of verdicts and send
\* the same prompts to the Judge in the same order.
ResolversEquivalent ==
    BothResolved =>
        /\ resolverRun.audit_logic.outcome = resolverRun.services.outcome
        /\ resolverRun.audit_logic.report = resolverRun.services.report
        /\ resolverRun.audit_logic.asked = resolverRun.services.asked

\* C29 witness: both implementations ran on two items the agents disagree
\* on, the Judge failed on the first and ruled on the second.
ResolversWitness ==
    /\ BothResolved
    /\ resolverRun.replies[1].kind = "exception"
    /\ Len(resolverRun.services.asked) = 2
    /\ Len(resolverRun.services.report) = 2
    /\ resolverRun.services.report[1].explanation = "Judge unavailable."
    /\ resolverRun.services.report[2].explanation = JudgeExplanation

====
